---- MODULE Spec2Model ----
(***************************************************************************)
(* File Inspector (src/app.py): the tree builder, the content extractor    *)
(* with its worker pool and line normalisation, the exporters and the      *)
(* orchestrator process_and_save, as state machines.                       *)
(*                                                                         *)
(* Text is a sequence of one-character strings.  The alphabet of the       *)
(* model is the letters "a" "b", the hyphen, space, tab and newline.   *)
(***************************************************************************)
EXTENDS Naturals, Integers, Sequences, FiniteSets, TLC

VARIABLES
    \* read_and_clean (lines 96-109), one file
    text,       \* the decoded content of the file (line 100)
    content,    \* the value returned (line 107)
    pcN,        \* "input" while the file is written, "done" after the return
    written,    \* the number of pieces the file's text was assembled from
    \* build_tree (lines 59-90)
    pcT,        \* "start", "walk" (inside the rglob loop), "done" (returned)
    rootName,   \* root.name
    todo,       \* the entries under root that rglob has not yielded yet
    tree,       \* the list tree
    \* build_files (lines 92-123)
    pcF,        \* "submit" (line 113), "collect" (lines 114-122), "done", "raised"
    kind,       \* all_files, by position: what reading the file meets
    submitted,  \* how many files of all_files have a future
    queue,      \* the executor's work queue: submitted, not yet started
    fut,        \* per file, where the worker running read_and_clean is
    res,        \* per file, the outcome its future holds
    collected,  \* the futures as_completed has yielded
    files,      \* the list files
    \* process_and_save (lines 257-286)
    pcP,        \* "start", "resolved", "tree", "built", "exported", "written",
                \* "returned", "propagated" (an exception left the function)
    source,     \* argument source
    local_path, \* argument local_path, by what it resolves to
    zip_file,   \* argument zip_file: "none" (None), "good", "bad" (not an archive)
    action,     \* argument action
    fmt,        \* argument fmt
    dirP,       \* what the directory at root (or in the archive) holds
    treeP,      \* local tree
    filesP,     \* local files
    contentP,   \* local content
    outFile,    \* the file at out_path: <<>> while there is none
    result,     \* the pair returned, <<>> before the return
    steps       \* the steps of the invocation so far, in order

normVars == <<text, content, pcN, written>>
treeVars == <<pcT, rootName, todo, tree>>
filesVars == <<pcF, kind, submitted, queue, fut, res, collected, files>>
procVars == <<pcP, source, local_path, zip_file, action, fmt, dirP, treeP, filesP,
              contentP, outFile, result, steps>>
vars == <<normVars, treeVars, filesVars, procVars>>

\* the variables of a component that is not running
IdleNorm == text = <<>> /\ content = <<>> /\ pcN = "idle" /\ written = 0
IdleTree == pcT = "idle" /\ rootName = <<>> /\ todo = {} /\ tree = <<>>
IdleFiles ==
    /\ pcF = "idle" /\ kind = <<>> /\ submitted = 0 /\ queue = <<>>
    /\ fut = <<>> /\ res = <<>> /\ collected = {} /\ files = <<>>
IdleProc ==
    /\ pcP = "idle" /\ source = "" /\ local_path = "" /\ zip_file = "" /\ action = <<>>
    /\ fmt = "" /\ dirP = <<>> /\ treeP = <<>> /\ filesP = <<>> /\ contentP = <<>>
    /\ outFile = <<>> /\ result = <<>> /\ steps = <<>>

\* ------------------------------------------------------------------ bounds

\* pieces (a word, a blank, a newline) a file's text is assembled from
MaxPieces == 5

\* entries under the root of the directory build_tree walks
MaxEntries == 3

\* regular files under the root of the directory build_files reads
NumFiles == 3

\* max_workers of the pool of build_files
MaxWorkers == 2

\* ------------------------------------------------------------- characters

SP == " "
TAB == "\t"
NL == "\n"
HY == "-"

Letters == {"a", "b"}

\* str.isspace() on the alphabet of the model
IsSpace(c) == c \in {SP, TAB, NL}

\* n copies of the character c
Rep(c, n) == [i \in 1..n |-> c]

RECURSIVE Flatten(_)
\* "".join(parts)
Flatten(parts) ==
    IF parts = <<>> THEN <<>>
    ELSE IF Len(parts) = 1 THEN parts[1]
    ELSE LET m == Len(parts) \div 2
         IN Flatten(SubSeq(parts, 1, m)) \o Flatten(SubSeq(parts, m + 1, Len(parts)))

RECURSIVE JoinWith(_, _)
\* sep.join(parts)
JoinWith(sep, parts) ==
    IF parts = <<>> THEN <<>>
    ELSE IF Len(parts) = 1 THEN parts[1]
    ELSE LET m == Len(parts) \div 2
         IN JoinWith(sep, SubSeq(parts, 1, m)) \o sep
              \o JoinWith(sep, SubSeq(parts, m + 1, Len(parts)))

\* the smallest element of a non-empty set of numbers
Min(S) == CHOOSE x \in S : \A y \in S : x <= y

RECURSIVE SortedSeq(_)
\* the elements of a finite set of numbers in increasing order
SortedSeq(S) ==
    IF S = {} THEN <<>> ELSE <<Min(S)>> \o SortedSeq(S \ {Min(S)})

\* ------------------------------------------------- read_and_clean (96-109)

\* textwrap.wrap(line, width=120, ...)
Width == 120

\* str.splitlines(): the lines between the line boundaries; a final
\* boundary opens no further line, the empty text has no line
SplitLines(s) ==
    LET n == Len(s)
        ends == {i \in 1..n : s[i] = NL} \cup (IF n > 0 /\ s[n] # NL THEN {n + 1} ELSE {})
        e == SortedSeq(ends)
    IN [k \in 1..Len(e) |->
          SubSeq(s, (IF k = 1 THEN 1 ELSE e[k - 1] + 1), e[k] - 1)]

\* s[i], or "" where the text has no i-th character
At(s, i) == IF i \in 1..Len(s) THEN s[i] ELSE ""

RECURSIVE ExpandFrom(_, _)
\* str.expandtabs(8) of a text without newline that starts at column col
ExpandFrom(s, col) ==
    LET tabs == {i \in 1..Len(s) : s[i] = TAB}
    IN IF tabs = {} THEN s
       ELSE LET i == Min(tabs)
                c == col + (i - 1)
                pad == 8 - (c % 8)
            IN SubSeq(s, 1, i - 1) \o Rep(SP, pad)
                 \o ExpandFrom(SubSeq(s, i + 1, Len(s)), c + pad)

\* TextWrapper._munge_whitespace: expand the tabs, then turn every
\* whitespace character into a space
MungeWhitespace(s) ==
    LET e == ExpandFrom(s, 0)
    IN [i \in 1..Len(e) |-> IF IsSpace(e[i]) THEN SP ELSE e[i]]

\* wordsep_re, "em-dash between words", tried at position p: the run of
\* two or more hyphens after a letter and before a letter; 0 if no match,
\* else the index of the last hyphen
EmDashEnd(s, p) ==
    LET n == Len(s)
        stop == Min({i \in p..(n + 1) : At(s, i) # HY})
    IN IF /\ At(s, p - 1) \in Letters
          /\ At(s, p) = HY /\ At(s, p + 1) = HY
          /\ At(s, stop) \in Letters
       THEN stop - 1 ELSE 0

\* wordsep_re, "word, possibly hyphenated", tried at position p of a
\* non-blank character: the shortest prefix of the word that ends after a
\* hyphen between letters, at the end of the word, or before an em-dash
WordEnd(s, p) ==
    LET n == Len(s)
        last == Min({i \in p..(n + 1) : At(s, i) = SP \/ i = n + 1}) - 1
        Hyphenated(q) ==
            /\ At(s, q) = HY
            /\ \/ At(s, q - 2) \in Letters /\ At(s, q - 1) \in Letters
               \/ At(s, q - 3) \in Letters /\ At(s, q - 2) = HY /\ At(s, q - 1) \in Letters
            /\ At(s, q + 1) \in Letters
            /\ \/ At(s, q + 2) \in Letters
               \/ At(s, q + 2) = HY /\ At(s, q + 3) \in Letters
        BeforeEmDash(q) ==
            At(s, q - 1) \in Letters /\ EmDashEnd(s, q) # 0
        q == Min({i \in (p + 1)..(last + 1) :
                     Hyphenated(i) \/ i = last + 1 \/ BeforeEmDash(i)})
    IN IF Hyphenated(q) THEN q ELSE q - 1

\* the index of the last character of the chunk wordsep_re matches at p
ChunkEnd(s, p) ==
    IF s[p] = SP
    THEN Min({i \in p..(Len(s) + 1) : At(s, i) # SP}) - 1
    ELSE IF EmDashEnd(s, p) # 0 THEN EmDashEnd(s, p) ELSE WordEnd(s, p)

RECURSIVE SplitFrom(_, _)
SplitFrom(s, p) ==
    IF p > Len(s) THEN <<>>
    ELSE LET e == ChunkEnd(s, p)
         IN <<SubSeq(s, p, e)>> \o SplitFrom(s, e + 1)

\* TextWrapper._split_chunks: the munged text cut into indivisible chunks
SplitChunks(s) == SplitFrom(MungeWhitespace(s), 1)

\* chunk.strip() == ''
IsBlank(chunk) == \A i \in 1..Len(chunk) : IsSpace(chunk[i])

RECURSIVE Fill(_, _, _)
\* inner loop of _wrap_chunks: the index of the first chunk from j on that
\* no longer fits on a line already holding cur_len characters
Fill(chunks, j, cur_len) ==
    IF j <= Len(chunks) /\ cur_len + Len(chunks[j]) <= Width
    THEN Fill(chunks, j + 1, cur_len + Len(chunks[j]))
    ELSE j

RECURSIVE WrapChunks(_, _, _)
\* TextWrapper._wrap_chunks with break_long_words = False and
\* drop_whitespace = True: the lines built from the chunks from index i on
WrapChunks(chunks, i, lines) ==
    IF i > Len(chunks) THEN lines
    ELSE LET i1 == IF IsBlank(chunks[i]) /\ lines # <<>> THEN i + 1 ELSE i
             j == Fill(chunks, i1, 0)
             \* _handle_long_word: the chunk fits on no line and goes on
             \* this one only if the line is still empty
             j2 == IF j <= Len(chunks) /\ Len(chunks[j]) > Width /\ j = i1
                   THEN j + 1 ELSE j
             cur_line == SubSeq(chunks, i1, j2 - 1)
             kept == IF cur_line # <<>> /\ IsBlank(cur_line[Len(cur_line)])
                     THEN SubSeq(cur_line, 1, Len(cur_line) - 1)
                     ELSE cur_line
         IN WrapChunks(chunks, j2,
                       IF kept # <<>> THEN Append(lines, Flatten(kept)) ELSE lines)

\* textwrap.wrap(line, width=120, break_long_words=False)
Wrap(line) == WrapChunks(SplitChunks(line), 1, <<>>)

\* a long line cut to its first 120 characters
LineSegmentsTruncating(line) ==
    IF Len(line) > Width THEN <<SubSeq(line, 1, Width)>> ELSE <<line>>

\* a long line cut every 120 characters, inside words too
LineSegmentsHardSplit(line) ==
    IF Len(line) > Width
    THEN [k \in 1..((Len(line) + Width - 1) \div Width) |->
             SubSeq(line, (k - 1) * Width + 1, IF k * Width < Len(line) THEN k * Width ELSE Len(line))]
    ELSE <<line>>

\* lines 102-106: a line of more than 120 characters is replaced by its
\* wrapped segments, any other line is kept
LineSegments(line) == IF Len(line) > Width THEN Wrap(line) ELSE <<line>>

RECURSIVE CleanLines(_)
CleanLines(ls) ==
    IF ls = <<>> THEN <<>> ELSE LineSegments(Head(ls)) \o CleanLines(Tail(ls))

\* lines 100-107 of read_and_clean, on the decoded text
Normalize(t) == JoinWith(<<NL>>, CleanLines(SplitLines(t)))

\* ------------------------------------------------ specification SpecNorm

\* what a file's text is assembled from
Pieces == {Rep("a", 60), Rep("b", 119), <<HY>>, <<SP>>, <<TAB>>, <<NL>>}

InitNorm ==
    /\ text = <<>>
    /\ content = <<>>
    /\ pcN = "input"
    /\ written = 0
    /\ IdleTree
    /\ IdleFiles
    /\ IdleProc

\* the file's content grows by one piece
WritePiece ==
    /\ pcN = "input"
    /\ written < MaxPieces
    /\ \E p \in Pieces : text' = text \o p
    /\ written' = written + 1
    /\ UNCHANGED <<content, pcN, treeVars, filesVars, procVars>>

\* read_and_clean reads the text and returns the normalised content
ReadAndClean ==
    /\ pcN = "input"
    /\ content' = Normalize(text)
    /\ pcN' = "done"
    /\ UNCHANGED <<text, written, treeVars, filesVars, procVars>>

NextNorm == WritePiece \/ ReadAndClean

SpecNorm == InitNorm /\ [][NextNorm]_vars

\* ------------------------------------------- human_readable_size (43-48)

Digit(d) == <<"0", "1", "2", "3", "4", "5", "6", "7", "8", "9">>[d + 1]

RECURSIVE Decimal(_)
\* str(n) of a natural number
Decimal(n) == IF n < 10 THEN <<Digit(n)>> ELSE Append(Decimal(n \div 10), Digit(n % 10))

\* f"{num:3.1f}" of num = n / d, d a power of 1024: the division is exact in
\* binary floating point and the format rounds a tie to the even digit
OneDecimal(n, d) ==
    LET q == (n * 10) \div d
        r == (n * 10) % d
        t == IF 2 * r > d \/ (2 * r = d /\ q % 2 = 1) THEN q + 1 ELSE q
    IN Decimal(t \div 10) \o <<".", Digit(t % 10)>>

Units == <<"", "K", "M">>

RECURSIVE HrFrom(_, _, _)
\* the loop of lines 44-47 from the k-th unit on, num = n / d
HrFrom(n, d, k) ==
    IF n < 1024 * d
    THEN OneDecimal(n, d) \o (IF Units[k] = "" THEN <<>> ELSE <<Units[k]>>) \o <<"B">>
    ELSE HrFrom(n, d * 1024, k + 1)

\* human_readable_size(num), for a size below 1024^3 bytes
HumanReadableSize(num) == HrFrom(num, 1, 1)

\* ------------------------------------------------------ build_tree (59-90)

Str_root_directory == <<"r", "o", "o", "t", "_", "d", "i", "r", "e", "c", "t", "o", "r", "y">>
Str_dot == <<".">>

\* the names root.name takes: a directory name, or nothing for the
\* filesystem root
RootNames == {<<"p", "r", "o", "j">>, <<>>}

\* the entries the directory under root can hold; parent is the path of
\* the directory the entry lies in (<<>> for root itself)
TreeUniverse ==
    { [path |-> <<"d">>, name |-> <<"d">>, is_dir |-> TRUE, parent |-> <<>>],
      [path |-> <<"d", "/", "f", ".", "p", "y">>, name |-> <<"f", ".", "p", "y">>, is_dir |-> FALSE, parent |-> <<"d">>],
      [path |-> <<"g">>, name |-> <<"g">>, is_dir |-> FALSE, parent |-> <<>>],
      [path |-> <<"e">>, name |-> <<"e">>, is_dir |-> TRUE, parent |-> <<>>] }

\* the directories build_tree is run on: every entry lies in root or in a
\* directory that is there
Directories ==
    {S \in SUBSET TreeUniverse :
        /\ Cardinality(S) <= MaxEntries
        /\ \A p \in S : p.parent = <<>> \/ \E q \in S : q.path = p.parent /\ q.is_dir}

\* st_size as stat() reports it: for a directory what the filesystem
\* keeps for it (a block on ext4, 0 elsewhere), for a file its byte count
StatSizes(is_dir) == IF is_dir THEN {0, 4096} ELSE {0, 8, 1280}

\* st_mtime as stat() reports it
StatTimes == {1700000000}

\* lines 62-70: the entry of the root
RootEntry(root_name, mtime) ==
    [path |-> Str_dot, is_dir |-> TRUE,
     name |-> IF root_name # <<>> THEN root_name ELSE Str_root_directory,
     size |-> 0, hr_size |-> HumanReadableSize(0), modified |-> mtime]

\* lines 75-84: the entry of p, from what stat() returned for it
Entry(p, st_size, st_mtime) ==
    [path |-> p.path, is_dir |-> p.is_dir, name |-> p.name,
     size |-> st_size, hr_size |-> HumanReadableSize(st_size), modified |-> st_mtime]

InitTree ==
    /\ pcT = "start"
    /\ rootName \in RootNames
    /\ todo \in Directories
    /\ tree = <<>>
    /\ IdleNorm
    /\ IdleFiles
    /\ IdleProc

\* lines 62-70: root.stat() succeeds and the root entry is appended
TreeRoot ==
    /\ pcT = "start"
    /\ \E m \in StatTimes : tree' = Append(tree, RootEntry(rootName, m))
    /\ pcT' = "walk"
    /\ UNCHANGED <<rootName, todo, normVars, filesVars, procVars>>

\* lines 69, 87-90: root.stat() raises while the entry is being built; the
\* outer handler prints and the empty tree is returned
TreeRootStatRaises ==
    /\ pcT = "start"
    /\ pcT' = "done"
    /\ UNCHANGED <<rootName, todo, tree, normVars, filesVars, procVars>>

\* lines 71-84: rglob yields an entry (a directory before what lies in
\* it), stat() succeeds and the entry is appended
TreeVisit ==
    /\ pcT = "walk"
    /\ \E p \in todo :
         /\ \A q \in todo : q.path # p.parent
         /\ \E sz \in StatSizes(p.is_dir), m \in StatTimes :
               tree' = Append(tree, Entry(p, sz, m))
         /\ todo' = todo \ {p}
    /\ UNCHANGED <<pcT, rootName, normVars, filesVars, procVars>>

\* lines 76, 85-86: stat() raises for the entry; it is skipped with a message
TreeSkip ==
    /\ pcT = "walk"
    /\ \E p \in todo :
         /\ \A q \in todo : q.path # p.parent
         /\ todo' = todo \ {p}
    /\ UNCHANGED <<pcT, rootName, tree, normVars, filesVars, procVars>>

\* lines 71, 87-90: the directory walk itself raises (scandir fails); the
\* outer handler prints and the entries gathered so far are returned
TreeWalkRaises ==
    /\ pcT = "walk"
    /\ todo # {}
    /\ pcT' = "done"
    /\ UNCHANGED <<rootName, todo, tree, normVars, filesVars, procVars>>

\* line 90: the walk is over and the tree is returned
TreeReturn ==
    /\ pcT = "walk"
    /\ todo = {}
    /\ pcT' = "done"
    /\ UNCHANGED <<rootName, todo, tree, normVars, filesVars, procVars>>

NextTree ==
    \/ TreeRoot \/ TreeRootStatRaises \/ TreeVisit \/ TreeSkip
    \/ TreeWalkRaises \/ TreeReturn

SpecTree == InitTree /\ [][NextTree]_vars

\* -------------------------------------------------------- exporters (125-244)

Str_NoContent == <<"N", "o", " ", "c", "o", "n", "t", "e", "n", "t", " ", "f", "o", "u", "n", "d">>
Str_DirectoryStructure == <<"D", "i", "r", "e", "c", "t", "o", "r", "y", " ", "S", "t", "r", "u", "c", "t", "u", "r", "e", ":">>
Str_FileContents == <<"\n", "F", "i", "l", "e", " ", "C", "o", "n", "t", "e", "n", "t", "s", ":">>
Str_File == <<"\n", "F", "i", "l", "e", ":", " ">>
Str_MdStructure == <<"#", " ", "D", "i", "r", "e", "c", "t", "o", "r", "y", " ", "S", "t", "r", "u", "c", "t", "u", "r", "e">>
Str_MdContents == <<"\n", "#", " ", "F", "i", "l", "e", " ", "C", "o", "n", "t", "e", "n", "t", "s">>
Str_MdText == <<"t", "e", "x", "t">>
\* the grave accent, U+0060, which a TLA+ string cannot hold
BT == "grave"
Str_Fence == <<BT, BT, BT>>
Str_DIR == <<"D", "I", "R">>
Str_FILE == <<"F", "I", "L", "E">>
Str_Dots == <<".", ".", ".">>
Str_CRLF == <<"\r", "\n">>
QUOTE == "\""
COMMA == ","

\* e['path'].count(os.sep)
Depth(path) == Cardinality({i \in 1..Len(path) : path[i] = "/"})

\* repr() of a float holding a whole number of seconds
FloatRepr(m) == Decimal(m) \o <<".", "0">>

\* "\n".join(parts) or "No content found"
JoinedOrNoContent(parts) ==
    IF JoinWith(<<NL>>, parts) = <<>> THEN Str_NoContent ELSE JoinWith(<<NL>>, parts)

\* export_txt (125-136)
ExportTxt(t, fs) ==
    JoinedOrNoContent(
        (IF t # <<>>
         THEN <<Str_DirectoryStructure>> \o
              [i \in 1..Len(t) |->
                  Rep(SP, 4 * Depth(t[i].path)) \o t[i].name \o <<" ", "(">>
                    \o t[i].hr_size \o <<")", ":", " ">> \o t[i].path]
         ELSE <<>>)
        \o
        (IF fs # <<>>
         THEN <<Str_FileContents>> \o
              [i \in 1..Len(fs) |-> Str_File \o fs[i].path \o <<NL>> \o fs[i].content]
         ELSE <<>>))

\* export_markdown (180-192)
ExportMarkdown(t, fs) ==
    JoinedOrNoContent(
        (IF t # <<>>
         THEN <<Str_MdStructure>> \o
              [i \in 1..Len(t) |->
                  Rep(SP, 2 * Depth(t[i].path)) \o <<"-", " ", "*", "*">> \o t[i].name
                    \o <<"*", "*", " ", "(">> \o t[i].hr_size \o <<")", ":", " ", BT>>
                    \o t[i].path \o <<BT>>]
         ELSE <<>>)
        \o
        (IF fs # <<>>
         THEN <<Str_MdContents>> \o
              [i \in 1..Len(fs) |->
                  <<NL, "#", "#", " ">> \o fs[i].path \o <<NL>> \o Str_Fence
                    \o (IF fs[i].syntax # <<>> THEN fs[i].syntax ELSE Str_MdText)
                    \o <<NL>> \o fs[i].content \o <<NL>> \o Str_Fence]
         ELSE <<>>))

\* csv.writer, QUOTE_MINIMAL: a field is quoted when it holds the delimiter,
\* the quote character or a character of the line terminator; a quote
\* inside it is doubled
QuoteField(f, delim) ==
    IF \E i \in 1..Len(f) : f[i] \in {delim, QUOTE, "\r", "\n"}
    THEN <<QUOTE>> \o Flatten([i \in 1..Len(f) |->
                                 IF f[i] = QUOTE THEN <<QUOTE, QUOTE>> ELSE <<f[i]>>])
               \o <<QUOTE>>
    ELSE f

\* csv.writer.writerow(fields); a row of one empty field is written as ""
WriteRow(fields, delim) ==
    (IF fields = <<<<>>>> THEN <<QUOTE, QUOTE>>
     ELSE JoinWith(<<delim>>, [i \in 1..Len(fields) |-> QuoteField(fields[i], delim)]))
    \o Str_CRLF

\* lines 208 and 226: the content cut to 200 characters
ExcerptLen == 200
Excerpt(c) == IF Len(c) > ExcerptLen THEN SubSeq(c, 1, ExcerptLen) \o Str_Dots ELSE c

\* lines 198-209 and 216-227: the rows both tabular exporters write
TableRows(t, fs) ==
    <<<<<<"T", "y", "p", "e">>, <<"P", "a", "t", "h">>, <<"S", "i", "z", "e">>, <<"M", "o", "d", "i", "f", "i", "e", "d">>>>>>
    \o [i \in 1..Len(t) |->
           <<(IF t[i].is_dir THEN Str_DIR ELSE Str_FILE), t[i].path,
             Decimal(t[i].size), FloatRepr(t[i].modified)>>]
    \o (IF fs # <<>>
        THEN <<<<>>, <<<<"F", "i", "l", "e", " ", "P", "a", "t", "h">>, <<"C", "o", "n", "t", "e", "n", "t", " ", "E", "x", "c", "e", "r", "p", "t">>>>>>
             \o [i \in 1..Len(fs) |-> <<fs[i].path, Excerpt(fs[i].content)>>]
        ELSE <<>>)

\* the rows written one after the other with the delimiter delim
WriteRows(rows, delim) == Flatten([i \in 1..Len(rows) |-> WriteRow(rows[i], delim)])

\* export_csv (194-210)
ExportCsv(t, fs) == WriteRows(TableRows(t, fs), COMMA)

\* the tab-delimited export writes the whole content, not its excerpt
ExportTsvWholeContent(t, fs) ==
    WriteRows([i \in 1..Len(TableRows(t, fs)) |->
                  IF i > Len(t) + 3
                  THEN <<fs[i - Len(t) - 3].path, fs[i - Len(t) - 3].content>>
                  ELSE TableRows(t, fs)[i]], TAB)

\* export_tsv (212-228)
ExportTsv(t, fs) == WriteRows(TableRows(t, fs), TAB)

\* tree[0]['name'] without the test for an empty tree
FirstNameUnguarded(t) ==
    IF t = <<>> THEN [exc |-> "IndexError", val |-> <<>>]
    ELSE [exc |-> "", val |-> t[1].name]

\* lines 142, 171, 232: tree[0]['name'] if tree else ""
FirstName(t) == [exc |-> "", val |-> IF t # <<>> THEN t[1].name ELSE <<>>]

Str_HtmlHead == <<"<", "h", "t", "m", "l", ">", "<", "h", "e", "a", "d", ">", "<", "m", "e", "t", "a", " ", "c", "h", "a", "r", "s", "e", "t", "=", "\"", "u", "t", "f", "-", "8", "\"", ">", "<", "t", "i", "t", "l", "e", ">", "F", "i", "l", "e", " ", "I", "n", "s", "p", "e", "c", "t", "o", "r", " ", "R", "e", "p", "o", "r", "t", "<", "/", "t", "i", "t", "l", "e", ">", "<", "/", "h", "e", "a", "d", ">", "<", "b", "o", "d", "y", ">">>
Str_HtmlH1 == <<"<", "h", "1", ">", "D", "i", "r", "e", "c", "t", "o", "r", "y", ":", " ">>
Str_HtmlH1End == <<"<", "/", "h", "1", ">">>
Str_HtmlStructure == <<"<", "d", "e", "t", "a", "i", "l", "s", " ", "o", "p", "e", "n", ">", "<", "s", "u", "m", "m", "a", "r", "y", ">", "S", "t", "r", "u", "c", "t", "u", "r", "e", "<", "/", "s", "u", "m", "m", "a", "r", "y", ">", "<", "p", "r", "e", ">">>
Str_HtmlPreEnd == <<"<", "/", "p", "r", "e", ">", "<", "/", "d", "e", "t", "a", "i", "l", "s", ">">>
Str_HtmlContents == <<"<", "d", "e", "t", "a", "i", "l", "s", ">", "<", "s", "u", "m", "m", "a", "r", "y", ">", "F", "i", "l", "e", " ", "C", "o", "n", "t", "e", "n", "t", "s", "<", "/", "s", "u", "m", "m", "a", "r", "y", ">">>
Str_HtmlDetailsEnd == <<"<", "/", "d", "e", "t", "a", "i", "l", "s", ">">>
Str_HtmlEnd == <<"<", "/", "b", "o", "d", "y", ">", "<", "/", "h", "t", "m", "l", ">">>

\* export_html (230-244)
ExportHtml(t, fs) ==
    JoinWith(<<NL>>,
        <<Str_HtmlHead, Str_HtmlH1 \o FirstName(t).val \o Str_HtmlH1End>>
        \o (IF t # <<>>
            THEN <<Str_HtmlStructure>>
                 \o [i \in 1..Len(t) |-> t[i].path \o <<" ", "(">> \o t[i].hr_size \o <<")">>]
                 \o <<Str_HtmlPreEnd>>
            ELSE <<>>)
        \o (IF fs # <<>>
            THEN <<Str_HtmlContents>>
                 \o [i \in 1..Len(fs) |->
                       <<"<", "h", "2", ">">> \o fs[i].path \o <<"<", "/", "h", "2", ">", "<", "p", "r", "e", ">">>
                         \o fs[i].content \o <<"<", "/", "p", "r", "e", ">">>]
                 \o <<Str_HtmlDetailsEnd>>
            ELSE <<>>)
        \o <<Str_HtmlEnd>>)

\* lines 139-148 and 168-177: the object export_json and export_yaml hand to
\* json.dumps and yaml.dump
Document(t, fs) ==
    [metadata |-> [directory |-> [name |-> FirstName(t).val,
                                  file_count |-> Len(fs),
                                  directory_count |-> Cardinality({i \in 1..Len(t) : t[i].is_dir})]],
     structure |-> t,
     files |-> fs]

\* export_json (138-149); the text json.dumps makes of the object is not
\* spelled out, the output is the object tagged with its serialiser
ExportJson(t, fs) == <<"json.dumps", Document(t, fs)>>

\* export_yaml (167-178), likewise
ExportYaml(t, fs) == <<"yaml.dump", Document(t, fs)>>

\* export_jsonl (151-165): one tagged object per line, tree lines first
ExportJsonl(t, fs) ==
    <<"jsonl">> \o [i \in 1..Len(t) |-> [type |-> "structure", data |-> t[i]]]
                \o [i \in 1..Len(fs) |-> [type |-> "content", data |-> fs[i]]]

\* _FORMATS (246-255): format name -> extension
Formats ==
    [TXT |-> <<"t", "x", "t">>, JSON |-> <<"j", "s", "o", "n">>, JSONL |-> <<"j", "s", "o", "n", "l">>, YAML |-> <<"y", "a", "m", "l">>,
     Markdown |-> <<"m", "d">>, CSV |-> <<"c", "s", "v">>, TSV |-> <<"t", "s", "v">>, HTML |-> <<"h", "t", "m", "l">>]

\* _FORMATS[fmt]["exporter"](tree, files): the exception the exporter
\* raises ("" for none) and the string it returns
Export(f, t, fs) ==
    [exc |-> IF f \in {"JSON", "YAML", "HTML"} THEN FirstName(t).exc ELSE "",
     val |-> CASE f = "TXT" -> ExportTxt(t, fs)
               [] f = "JSON" -> ExportJson(t, fs)
               [] f = "JSONL" -> ExportJsonl(t, fs)
               [] f = "YAML" -> ExportYaml(t, fs)
               [] f = "Markdown" -> ExportMarkdown(t, fs)
               [] f = "CSV" -> ExportCsv(t, fs)
               [] f = "TSV" -> ExportTsv(t, fs)
               [] f = "HTML" -> ExportHtml(t, fs)]

\* ----------------------------------------------------- _SYNTAX_MAP (31-41)

SyntaxMap ==
    { <<<<".", "p", "y">>, <<"p", "y", "t", "h", "o", "n">>>>,
      <<<<".", "j", "s">>, <<"j", "a", "v", "a", "s", "c", "r", "i", "p", "t">>>>,
      <<<<".", "m", "j", "s">>, <<"j", "a", "v", "a", "s", "c", "r", "i", "p", "t">>>>,
      <<<<".", "h", "t", "m", "l">>, <<"h", "t", "m", "l">>>>,
      <<<<".", "c", "s", "s">>, <<"c", "s", "s">>>>,
      <<<<".", "j", "s", "o", "n">>, <<"j", "s", "o", "n">>>>,
      <<<<".", "y", "m", "l">>, <<"y", "a", "m", "l">>>>,
      <<<<".", "y", "a", "m", "l">>, <<"y", "a", "m", "l">>>>,
      <<<<".", "m", "d">>, <<"m", "a", "r", "k", "d", "o", "w", "n">>>>,
      <<<<".", "s", "h">>, <<"b", "a", "s", "h">>>>,
      <<<<".", "j", "a", "v", "a">>, <<"j", "a", "v", "a">>>>,
      <<<<".", "c">>, <<"c">>>>,
      <<<<".", "c", "p", "p">>, <<"c", "p", "p">>>>,
      <<<<".", "h">>, <<"c", "p", "p">>>>,
      <<<<".", "c", "s">>, <<"c", "s", "h", "a", "r", "p">>>>,
      <<<<".", "p", "h", "p">>, <<"p", "h", "p">>>>,
      <<<<".", "r", "b">>, <<"r", "u", "b", "y">>>>,
      <<<<".", "g", "o">>, <<"g", "o">>>>,
      <<<<".", "r", "s">>, <<"r", "u", "s", "t">>>>,
      <<<<".", "s", "w", "i", "f", "t">>, <<"s", "w", "i", "f", "t">>>>,
      <<<<".", "k", "t">>, <<"k", "o", "t", "l", "i", "n">>>>,
      <<<<".", "t", "s">>, <<"t", "y", "p", "e", "s", "c", "r", "i", "p", "t">>>>,
      <<<<".", "s", "q", "l">>, <<"s", "q", "l">>>>,
      <<<<".", "x", "m", "l">>, <<"x", "m", "l">>>>,
      <<<<".", "s", "v", "g">>, <<"x", "m", "l">>>>,
      <<<<".", "i", "n", "i">>, <<"i", "n", "i">>>>,
      <<<<".", "c", "f", "g">>, <<"i", "n", "i">>>>,
      <<<<".", "t", "o", "m", "l">>, <<"t", "o", "m", "l">>>>,
      <<<<".", "l", "o", "c", "k">>, <<"j", "s", "o", "n">>>> }

\* str.lower() on the characters of the model's file names
Lower(c) == IF c = "P" THEN "p" ELSE IF c = "Y" THEN "y" ELSE c

\* PurePath.suffix: the name from its last dot on, unless that dot opens
\* or ends the name
Suffix(name) ==
    LET dots == {i \in 2..(Len(name) - 1) : name[i] = "."}
    IN IF dots = {} THEN <<>>
       ELSE SubSeq(name, CHOOSE i \in dots : \A j \in dots : j <= i, Len(name))

\* line 121: _SYNTAX_MAP.get(p.suffix.lower(), '')
SyntaxOf(name) ==
    LET sfx == [i \in 1..Len(Suffix(name)) |-> Lower(Suffix(name)[i])]
    IN IF \E e \in SyntaxMap : e[1] = sfx
       THEN (CHOOSE e \in SyntaxMap : e[1] = sfx)[2]
       ELSE <<>>

\* --------------------------------------------------- is_text_file (50-57)

\* what reading a file meets: "text" (it reads, no null byte in the first
\* block), "binary" (a null byte in the first block), "noopen" (opening or
\* reading the first block raises), "noread" (the first block reads, then
\* read_text raises)
Kinds == {"text", "binary", "noopen", "noread"}

\* is_text_file(path): False on a null byte in the first block and when
\* opening or reading raises
IsTextFile(k) == k \in {"text", "noread"}

\* ----------------------------------------------------- build_files (92-123)

\* Python's None, which no text equals
None == <<"None">>

\* the root the files are read under, as str(root)
RootPath == <<"/", "r">>

\* the regular files rglob lists under root, by position in all_files:
\* path relative to root and decoded content
FileTable ==
    << [path |-> <<"a", ".", "p", "y">>, name |-> <<"a", ".", "p", "y">>, text |-> <<"p", "r", "i", "n", "t", "(", "1", ")">>],
       [path |-> <<"b", ".", "t", "x", "t">>, name |-> <<"b", ".", "t", "x", "t">>,
        text |-> Rep("b", 119) \o <<SP>> \o Rep("a", 60) \o <<NL>>],
       [path |-> <<"c">>, name |-> <<"c">>, text |-> <<"a", "\t", "b", "\n", "\n">>],
       [path |-> <<"e", ".", "P", "Y">>, name |-> <<"e", ".", "P", "Y">>, text |-> <<>>],
       [path |-> <<"x", ",", "y", ".", "t", "x", "t">>, name |-> <<"x", ",", "y", ".", "t", "x", "t">>, text |-> <<"s", "a", "y", " ", "\"", "h", "i", "\"">>],
       [path |-> <<"q", ".", "m", "d">>, name |-> <<"q", ".", "m", "d">>,
        text |-> <<"s", "a", "y", " ", "\"", "h", "i", "\"", "\n">> \o Rep("a", 60) \o <<NL>> \o Rep("b", 119) \o <<NL>> \o Rep("a", 60)],
       [path |-> <<"d", "/", "f", ".", "p", "y">>, name |-> <<"f", ".", "p", "y">>, text |-> <<"p", "r", "i", "n", "t", "(", "1", ")">>],
       [path |-> <<"t", "\t", "z">>, name |-> <<"t", "\t", "z">>, text |-> <<"a", ",", "b">>],
       [path |-> <<"g">>, name |-> <<"g">>, text |-> <<>>] >>

Str_ErrorReading == <<"E", "r", "r", "o", "r", " ", "r", "e", "a", "d", "i", "n", "g", " ">>
Str_IOError == <<":", " ", "[", "E", "r", "r", "n", "o", " ", "5", "]", " ", "I", "n", "p", "u", "t", "/", "o", "u", "t", "p", "u", "t", " ", "e", "r", "r", "o", "r">>

\* lines 108-109: f"Error reading {p}: {e}"
ErrorReading(f) ==
    Str_ErrorReading \o RootPath \o <<"/">> \o FileTable[f].path \o Str_IOError

\* the read of a file read_text raises for propagates out of the worker
ReadTextUnguarded(f, k) ==
    IF k = "noread" THEN [exc |-> TRUE, val |-> None]
    ELSE [exc |-> FALSE, val |-> Normalize(FileTable[f].text)]

\* lines 99-109: the outcome of the try block of read_and_clean for a file
\* the classifier accepted: the normalised text, or the error string
ReadText(f, k) ==
    IF k = "noread" THEN [exc |-> FALSE, val |-> ErrorReading(f)]
    ELSE [exc |-> FALSE, val |-> Normalize(FileTable[f].text)]

\* lines 118-122: the record of file f with the content its future returned
FileRecord(f, c) ==
    [path |-> FileTable[f].path, content |-> c, syntax |-> SyntaxOf(FileTable[f].path)]

\* the collection keeps the latest record only
CollectReplacing(fs, f, c) == IF c # None THEN <<FileRecord(f, c)>> ELSE fs

\* lines 115-122: files after the future of f, which returned c, is handled
Collect(fs, f, c) == IF c # None THEN Append(fs, FileRecord(f, c)) ELSE fs

\* the workers inside read_and_clean
Busy == {f \in DOMAIN fut : fut[f] \in {"classify", "read"}}

InitFiles ==
    /\ pcF = "submit"
    /\ \E n \in 0..NumFiles : kind \in [1..n -> Kinds]
    /\ submitted = 0
    /\ queue = <<>>
    /\ fut = [f \in DOMAIN kind |-> "none"]
    /\ res = [f \in DOMAIN kind |-> [exc |-> FALSE, val |-> None]]
    /\ collected = {}
    /\ files = <<>>
    /\ IdleNorm
    /\ IdleTree
    /\ IdleProc

\* line 113: exe.submit(read_and_clean, p) for the next file of all_files
Submit ==
    /\ pcF = "submit"
    /\ submitted < Len(kind)
    /\ submitted' = submitted + 1
    /\ queue' = Append(queue, submitted + 1)
    /\ fut' = [fut EXCEPT ![submitted + 1] = "pending"]
    /\ UNCHANGED <<pcF, kind, res, collected, files, normVars, treeVars, procVars>>

\* lines 113-114: every file has its future; as_completed starts
AllSubmitted ==
    /\ pcF = "submit"
    /\ submitted = Len(kind)
    /\ pcF' = "collect"
    /\ UNCHANGED <<kind, submitted, queue, fut, res, collected, files, normVars, treeVars, procVars>>

\* a free worker of the pool takes the oldest queued call
WorkerStart ==
    /\ queue # <<>>
    /\ Cardinality(Busy) < MaxWorkers
    /\ fut' = [fut EXCEPT ![Head(queue)] = "classify"]
    /\ queue' = Tail(queue)
    /\ UNCHANGED <<pcF, kind, submitted, res, collected, files, normVars, treeVars, procVars>>

\* lines 97-98: the worker classifies its file; a file that is not text
\* returns None
WorkerClassify(f) ==
    /\ fut[f] = "classify"
    /\ IF IsTextFile(kind[f])
       THEN fut' = [fut EXCEPT ![f] = "read"] /\ UNCHANGED res
       ELSE fut' = [fut EXCEPT ![f] = "done"] /\ UNCHANGED res
    /\ UNCHANGED <<pcF, kind, submitted, queue, collected, files, normVars, treeVars, procVars>>

\* lines 99-109: the worker reads and normalises its file and returns
WorkerRead(f) ==
    /\ fut[f] = "read"
    /\ res' = [res EXCEPT ![f] = ReadText(f, kind[f])]
    /\ fut' = [fut EXCEPT ![f] = "done"]
    /\ UNCHANGED <<pcF, kind, submitted, queue, collected, files, normVars, treeVars, procVars>>

\* lines 114-122: as_completed yields a finished future; fut.result()
\* re-raises what the worker raised, else the content is collected
CollectFuture(f) ==
    /\ pcF = "collect"
    /\ fut[f] = "done"
    /\ f \notin collected
    /\ collected' = collected \cup {f}
    /\ IF res[f].exc
       THEN pcF' = "raised" /\ UNCHANGED files
       ELSE pcF' = pcF /\ files' = Collect(files, f, res[f].val)
    /\ UNCHANGED <<kind, submitted, queue, fut, res, normVars, treeVars, procVars>>

\* line 123: every future was yielded; files is returned
FilesReturn ==
    /\ pcF = "collect"
    /\ collected = DOMAIN kind
    /\ pcF' = "done"
    /\ UNCHANGED <<kind, submitted, queue, fut, res, collected, files, normVars, treeVars, procVars>>

NextFiles ==
    \/ Submit \/ AllSubmitted \/ WorkerStart
    \/ (\E f \in DOMAIN kind : WorkerClassify(f))
    \/ (\E f \in DOMAIN kind : WorkerRead(f))
    \/ (\E f \in DOMAIN kind : CollectFuture(f))
    \/ FilesReturn

SpecFiles == InitFiles /\ [][NextFiles]_vars

\* ----------------------------------------------- process_and_save (257-286)

Str_UploadZip == "Upload ZIP"
Sources == {"Local Path", Str_UploadZip}

\* what local_path resolves to: a directory, the filesystem root, a regular
\* file, nothing; "error" when expanduser() or resolve() raises
LocalPaths == {"dir", "fsroot", "file", "missing", "error"}

ZipFiles == {"none", "good", "bad"}

Str_DisplayTree == <<"D", "i", "s", "p", "l", "a", "y", " ", "T", "r", "e", "e">>
Str_ExtractCode == <<"E", "x", "t", "r", "a", "c", "t", " ", "C", "o", "d", "e">>
Actions == {Str_DisplayTree, Str_ExtractCode,
            <<"D", "i", "s", "p", "l", "a", "y", " ", "T", "r", "e", "e", " ", "+", " ", "E", "x", "t", "r", "a", "c", "t", " ", "C", "o", "d", "e">>}

Str_Tree == <<"T", "r", "e", "e">>

\* sub in s
Contains(s, sub) ==
    \E i \in 1..(Len(s) - Len(sub) + 1) : SubSeq(s, i, i + Len(sub) - 1) = sub

\* the format names offered, and one that is not registered
FormatNames == DOMAIN Formats \cup {"PDF"}

\* str(fmt)
FormatText(f) ==
    CASE f = "TXT" -> <<"T", "X", "T">> [] f = "JSON" -> <<"J", "S", "O", "N">> [] f = "JSONL" -> <<"J", "S", "O", "N", "L">>
      [] f = "YAML" -> <<"Y", "A", "M", "L">> [] f = "Markdown" -> <<"M", "a", "r", "k", "d", "o", "w", "n">> [] f = "CSV" -> <<"C", "S", "V">>
      [] f = "TSV" -> <<"T", "S", "V">> [] f = "HTML" -> <<"H", "T", "M", "L">> [] f = "PDF" -> <<"P", "D", "F">>

\* one entry rglob yields: file is its position in FileTable (0 for a
\* directory), kind what reading it meets
Item(path, name, is_dir, st_size, file, k) ==
    [path |-> path, name |-> name, is_dir |-> is_dir, st_size |-> st_size, file |-> file, kind |-> k]

FileItem(f, st_size, k) == Item(FileTable[f].path, FileTable[f].name, FALSE, st_size, f, k)

\* the directories process_and_save is run on, each in the order rglob
\* yields its entries: an empty one; one holding a.py; one with a
\* subdirectory, a long text with quotes and a binary file; one whose
\* names and contents hold commas and tabs, with a file read_text fails on
ProcDirs ==
    { <<>>,
      <<FileItem(1, 8, "text")>>,
      <<Item(<<"d">>, <<"d">>, TRUE, 4096, 0, "text"),
        FileItem(7, 8, "text"), FileItem(6, 250, "text"), FileItem(9, 1280, "binary")>>,
      <<FileItem(5, 8, "text"), FileItem(8, 3, "text"), FileItem(3, 5, "noread")>> }

\* build_tree(root) on a directory holding items, when every stat() succeeds
BuildTreeOf(root_name, items) ==
    <<RootEntry(root_name, 1700000000)>>
    \o [i \in 1..Len(items) |-> Entry(items[i], items[i].st_size, 1700000000)]

\* the injective sequences over the set S: the orders S can be taken in
Orders(S) ==
    {o \in [1..Cardinality(S) -> S] : \A i, j \in 1..Cardinality(S) : o[i] = o[j] => i = j}

\* build_files(root) on a directory holding items: the records of the files
\* the classifier accepts, in every order their futures can complete in
BuildFilesOf(items) ==
    LET accepted == {i \in 1..Len(items) : ~items[i].is_dir /\ IsTextFile(items[i].kind)}
    IN {[k \in 1..Cardinality(accepted) |->
            FileRecord(items[o[k]].file, ReadText(items[o[k]].file, items[o[k]].kind).val)]
          : o \in Orders(accepted)}

\* root.name: of the resolved local path, or of the temporary directory the
\* archive was extracted to
RootNameOf(src, lp) ==
    IF src = Str_UploadZip THEN <<"t", "m", "p", "k", "3", "x", "9">>
    ELSE IF lp = "fsroot" THEN <<>>
    ELSE IF lp = "file" THEN <<"n", "o", "t", "e", "s", ".", "t", "x", "t">>
    ELSE <<"p", "r", "o", "j">>

\* root.exists(): a regular file passes too
RootExists(src, lp) == src = Str_UploadZip \/ lp \in {"dir", "fsroot", "file"}

\* line 269: root.is_dir()
RootIsDir(src, lp) == src = Str_UploadZip \/ lp \in {"dir", "fsroot"}

\* line 275: fmt in _FORMATS
FormatKnown(f) == f \in DOMAIN Formats

\* what root.rglob('*') yields: the entries of the directory, and nothing
\* under a root that is no directory
Listing(src, lp, dir) == IF src = Str_UploadZip \/ lp \in {"dir", "fsroot"} THEN dir ELSE <<>>

Str_output == <<"o", "u", "t", "p", "u", "t">>
Str_TempDir == <<"/", "t", "m", "p">>

\* line 280: f"{root.name or 'output'}.{_FORMATS[fmt]['ext']}"
OutName(root_name, f) ==
    (IF root_name # <<>> THEN root_name ELSE Str_output) \o <<".">> \o Formats[f]

\* line 281: str(Path(tempfile.gettempdir()) / out_name)
OutPath(root_name, f) == Str_TempDir \o <<"/">> \o OutName(root_name, f)

Str_NoZip == <<"E", "r", "r", "o", "r", ":", " ", "n", "o", " ", "Z", "I", "P", " ", "u", "p", "l", "o", "a", "d", "e", "d">>
Str_InvalidDir == <<"E", "r", "r", "o", "r", ":", " ", "I", "n", "v", "a", "l", "i", "d", " ", "d", "i", "r", "e", "c", "t", "o", "r", "y">>
Str_UnknownFormat == <<"E", "r", "r", "o", "r", ":", " ", "U", "n", "k", "n", "o", "w", "n", " ", "f", "o", "r", "m", "a", "t", " ">>
Str_ProcessingError == <<"P", "r", "o", "c", "e", "s", "s", "i", "n", "g", " ", "e", "r", "r", "o", "r", ":", " ">>
Str_Traceback == <<"T", "r", "a", "c", "e", "b", "a", "c", "k", " ", "(", "m", "o", "s", "t", " ", "r", "e", "c", "e", "n", "t", " ", "c", "a", "l", "l", " ", "l", "a", "s", "t", ")", ":", "\n">>

\* the exceptions the steps of the pipeline raise: class name and str(e)
BadZipFile == [name |-> <<"z", "i", "p", "f", "i", "l", "e", ".", "B", "a", "d", "Z", "i", "p", "F", "i", "l", "e">>, msg |-> <<"F", "i", "l", "e", " ", "i", "s", " ", "n", "o", "t", " ", "a", " ", "z", "i", "p", " ", "f", "i", "l", "e">>]
ResolveError == [name |-> <<"R", "u", "n", "t", "i", "m", "e", "E", "r", "r", "o", "r">>, msg |-> <<"C", "o", "u", "l", "d", " ", "n", "o", "t", " ", "d", "e", "t", "e", "r", "m", "i", "n", "e", " ", "h", "o", "m", "e", " ", "d", "i", "r", "e", "c", "t", "o", "r", "y", ".">>]
WalkError == [name |-> <<"O", "S", "E", "r", "r", "o", "r">>, msg |-> <<"[", "E", "r", "r", "n", "o", " ", "5", "]", " ", "I", "n", "p", "u", "t", "/", "o", "u", "t", "p", "u", "t", " ", "e", "r", "r", "o", "r">>]
WriteError == [name |-> <<"O", "S", "E", "r", "r", "o", "r">>, msg |-> <<"[", "E", "r", "r", "n", "o", " ", "2", "8", "]", " ", "N", "o", " ", "s", "p", "a", "c", "e", " ", "l", "e", "f", "t", " ", "o", "n", " ", "d", "e", "v", "i", "c", "e">>]
IndexError == [name |-> <<"I", "n", "d", "e", "x", "E", "r", "r", "o", "r">>, msg |-> <<"l", "i", "s", "t", " ", "i", "n", "d", "e", "x", " ", "o", "u", "t", " ", "o", "f", " ", "r", "a", "n", "g", "e">>]

\* traceback.format_exc(): the header, the frames (left out) and the
\* exception's own line
FormatExc(e) == Str_Traceback \o e.name \o <<":", " ">> \o e.msg \o <<NL>>

\* without the handler the exception leaves process_and_save
OnExceptionUncaught(e) == [pc |-> "propagated", result |-> <<>>]

\* lines 285-286: the handler returns the message with the stack trace
OnException(e) ==
    [pc |-> "returned",
     result |-> <<None, Str_ProcessingError \o e.msg \o <<NL>> \o FormatExc(e)>>]

InitProc ==
    /\ pcP = "start"
    /\ source \in Sources
    /\ local_path \in LocalPaths
    /\ zip_file \in ZipFiles
    /\ action \in Actions
    /\ fmt \in FormatNames
    /\ dirP \in ProcDirs
    /\ treeP = <<>>
    /\ filesP = <<>>
    /\ contentP = <<>>
    /\ outFile = <<>>
    /\ result = <<>>
    /\ steps = <<>>
    /\ IdleNorm
    /\ IdleTree
    /\ IdleFiles

inputsP == <<source, local_path, zip_file, action, fmt, dirP>>

\* an exception raised at the current step reaches the handler
Raise(e, step) ==
    /\ pcP' = OnException(e).pc
    /\ result' = OnException(e).result
    /\ steps' = Append(steps, step)

\* lines 259-261: an upload without an archive
NoZip ==
    /\ pcP = "start"
    /\ source = Str_UploadZip
    /\ zip_file = "none"
    /\ result' = <<None, Str_NoZip>>
    /\ pcP' = "returned"
    /\ UNCHANGED <<inputsP, treeP, filesP, contentP, outFile, steps, normVars, treeVars, filesVars>>

\* lines 262-265: the archive is extracted to a fresh temporary directory
ExtractZip ==
    /\ pcP = "start"
    /\ source = Str_UploadZip
    /\ zip_file = "good"
    /\ pcP' = "resolved"
    /\ steps' = Append(steps, "resolve")
    /\ UNCHANGED <<inputsP, treeP, filesP, contentP, outFile, result, normVars, treeVars, filesVars>>

\* lines 263-264: the upload is no archive, ZipFile raises
ExtractZipRaises ==
    /\ pcP = "start"
    /\ source = Str_UploadZip
    /\ zip_file = "bad"
    /\ Raise(BadZipFile, "resolve raised")
    /\ UNCHANGED <<inputsP, treeP, filesP, contentP, outFile, normVars, treeVars, filesVars>>

\* line 267: the local path is resolved
ResolvePath ==
    /\ pcP = "start"
    /\ source # Str_UploadZip
    /\ local_path # "error"
    /\ pcP' = "resolved"
    /\ steps' = Append(steps, "resolve")
    /\ UNCHANGED <<inputsP, treeP, filesP, contentP, outFile, result, normVars, treeVars, filesVars>>

\* line 267: expanduser() or resolve() raises
ResolvePathRaises ==
    /\ pcP = "start"
    /\ source # Str_UploadZip
    /\ local_path = "error"
    /\ Raise(ResolveError, "resolve raised")
    /\ UNCHANGED <<inputsP, treeP, filesP, contentP, outFile, normVars, treeVars, filesVars>>

\* lines 269-270: the root is no directory
InvalidDirectory ==
    /\ pcP = "resolved"
    /\ ~RootIsDir(source, local_path)
    /\ result' = <<None, Str_InvalidDir>>
    /\ pcP' = "returned"
    /\ UNCHANGED <<inputsP, treeP, filesP, contentP, outFile, steps, normVars, treeVars, filesVars>>

\* lines 269-272: the root is a directory; build_tree runs if the action
\* names the tree
BuildTreeStep ==
    /\ pcP = "resolved"
    /\ RootIsDir(source, local_path)
    /\ treeP' = IF Contains(action, Str_Tree)
                THEN BuildTreeOf(RootNameOf(source, local_path),
                                 Listing(source, local_path, dirP))
                ELSE <<>>
    /\ pcP' = "tree"
    /\ steps' = Append(steps, "build_tree")
    /\ UNCHANGED <<inputsP, filesP, contentP, outFile, result, normVars, treeVars, filesVars>>

\* line 272 with lines 69, 87-90: root.stat() raises inside build_tree,
\* which returns the empty tree
BuildTreeRootStatRaises ==
    /\ pcP = "resolved"
    /\ RootIsDir(source, local_path)
    /\ Contains(action, Str_Tree)
    /\ treeP' = <<>>
    /\ pcP' = "tree"
    /\ steps' = Append(steps, "build_tree: root.stat() raised")
    /\ UNCHANGED <<inputsP, filesP, contentP, outFile, result, normVars, treeVars, filesVars>>

\* line 273: build_files runs if the action names the extraction
BuildFilesStep ==
    /\ pcP = "tree"
    /\ filesP' \in IF Contains(action, Str_ExtractCode)
                   THEN BuildFilesOf(Listing(source, local_path, dirP))
                   ELSE {<<>>}
    /\ pcP' = "built"
    /\ steps' = Append(steps, "build_files")
    /\ UNCHANGED <<inputsP, treeP, contentP, outFile, result, normVars, treeVars, filesVars>>

\* line 273 with line 94: the directory walk of build_files raises
BuildFilesRaises ==
    /\ pcP = "tree"
    /\ Contains(action, Str_ExtractCode)
    /\ Raise(WalkError, "build_files raised")
    /\ UNCHANGED <<inputsP, treeP, filesP, contentP, outFile, normVars, treeVars, filesVars>>

\* lines 275-276: the format is not registered
UnknownFormat ==
    /\ pcP = "built"
    /\ ~FormatKnown(fmt)
    /\ result' = <<None, Str_UnknownFormat \o FormatText(fmt)>>
    /\ pcP' = "returned"
    /\ UNCHANGED <<inputsP, treeP, filesP, contentP, outFile, steps, normVars, treeVars, filesVars>>

\* lines 275-278: the exporter is looked up and run
ExportStep ==
    /\ pcP = "built"
    /\ FormatKnown(fmt)
    /\ IF Export(fmt, treeP, filesP).exc # ""
       THEN Raise(IndexError, "export raised") /\ UNCHANGED contentP
       ELSE /\ contentP' = Export(fmt, treeP, filesP).val
            /\ pcP' = "exported"
            /\ steps' = steps \o <<"lookup", "export">>
            /\ UNCHANGED result
    /\ UNCHANGED <<inputsP, treeP, filesP, outFile, normVars, treeVars, filesVars>>

\* lines 280-282: the content is written to the output file
WriteOutput ==
    /\ pcP = "exported"
    /\ outFile' = [name |-> OutPath(RootNameOf(source, local_path), fmt), data |-> contentP]
    /\ pcP' = "written"
    /\ steps' = Append(steps, "write")
    /\ UNCHANGED <<inputsP, treeP, filesP, contentP, result, normVars, treeVars, filesVars>>

\* line 282: write_text raises, before the file exists or with the file
\* left incomplete
WriteOutputRaises ==
    /\ pcP = "exported"
    /\ outFile' \in {<<>>, [name |-> OutPath(RootNameOf(source, local_path), fmt), data |-> <<>>]}
    /\ Raise(WriteError, "write raised")
    /\ UNCHANGED <<inputsP, treeP, filesP, contentP, normVars, treeVars, filesVars>>

\* line 283: the output path and the content are returned
ReturnOutput ==
    /\ pcP = "written"
    /\ result' = <<outFile.name, contentP>>
    /\ pcP' = "returned"
    /\ UNCHANGED <<inputsP, treeP, filesP, contentP, outFile, steps, normVars, treeVars, filesVars>>

NextProc ==
    \/ NoZip \/ ExtractZip \/ ExtractZipRaises \/ ResolvePath \/ ResolvePathRaises
    \/ InvalidDirectory \/ BuildTreeStep \/ BuildTreeRootStatRaises
    \/ BuildFilesStep \/ BuildFilesRaises \/ UnknownFormat \/ ExportStep
    \/ WriteOutput \/ WriteOutputRaises \/ ReturnOutput

SpecProc == InitProc /\ [][NextProc]_vars

\* ------------------------------------------------------- claims C1 and C2

\* the positions of the tree that hold an entry with path "."
RootEntries == {i \in 1..Len(tree) : tree[i].path = Str_dot}

\* C1 as stated: the tree build_tree returns holds exactly one entry with
\* path ".", of size 0, whatever happens while metadata is read.
C1_OneRootEntry ==
    pcT = "done" =>
        /\ Cardinality(RootEntries) = 1
        /\ \A i \in RootEntries : tree[i].size = 0

\* C2 as stated: every entry of the tree with is_dir true has size 0.
C2_DirectoriesHaveSizeZero ==
    \A i \in 1..Len(tree) : tree[i].is_dir => tree[i].size = 0

\* ------------------------------------------------------- claims C4 and C5

\* the records of files that belong to file f
RecordsOf(f) == {i \in 1..Len(files) : files[i].path = FileTable[f].path}

\* the content is an inline error string
IsErrorString(c) ==
    Len(c) >= Len(Str_ErrorReading) /\ SubSeq(c, 1, Len(Str_ErrorReading)) = Str_ErrorReading

\* C4 as stated: every file whose read raises has a record whose content
\* is an inline error string.
C4_FailedReadsKeepARecord ==
    pcF = "done" =>
        \A f \in DOMAIN kind :
            kind[f] \in {"noopen", "noread"} =>
                \E i \in RecordsOf(f) : IsErrorString(files[i].content)

\* C4, amended: no failing read aborts build_files; a file read_text raises
\* for after the classifier accepted it has one record, holding the error
\* string; a file the classifier could not read has no record; every
\* readable text file has its record.
C4_ReadErrorsInline ==
    /\ pcF # "raised"
    /\ pcF = "done" =>
         \A f \in DOMAIN kind :
            /\ kind[f] = "noread" =>
                 /\ Cardinality(RecordsOf(f)) = 1
                 /\ \A i \in RecordsOf(f) : files[i].content = ErrorReading(f)
            /\ kind[f] = "noopen" => RecordsOf(f) = {}
            /\ kind[f] = "text" =>
                 /\ Cardinality(RecordsOf(f)) = 1
                 /\ \A i \in RecordsOf(f) : ~IsErrorString(files[i].content)

\* C4, the case: build_files returned for a directory holding a file whose
\* read raised in the classifier, one whose read raised after it, and a
\* readable text file.
C4_Witness ==
    /\ pcF = "done"
    /\ \E f, g, h \in DOMAIN kind :
          kind[f] = "noopen" /\ kind[g] = "noread" /\ kind[h] = "text"

RECURSIVE SequentialFiles(_)
\* the records a run that reads the first n files one after the other makes
SequentialFiles(n) ==
    IF n = 0 THEN {}
    ELSE SequentialFiles(n - 1) \cup
         (IF kind[n] = "binary" \/ kind[n] = "noopen" THEN {}
          ELSE {FileRecord(n, IF kind[n] = "noread" THEN ErrorReading(n)
                                ELSE Normalize(FileTable[n].text))})

\* C5: whatever the interleaving of the workers and the order the futures
\* complete in, the files returned hold exactly one record per file the
\* classifier accepts, none for a file with a null byte in its first block,
\* and as a set they are the records of a sequential run.
C5_OneRecordPerTextFile ==
    pcF = "done" =>
        /\ \A f \in DOMAIN kind :
              Cardinality(RecordsOf(f)) = (IF kind[f] \in {"text", "noread"} THEN 1 ELSE 0)
        /\ \A f \in DOMAIN kind : kind[f] = "binary" => RecordsOf(f) = {}
        /\ {files[i] : i \in 1..Len(files)} = SequentialFiles(Len(kind))
        /\ Len(files) = Cardinality(SequentialFiles(Len(kind)))

\* C5, the case: the futures were collected out of submission order, and a
\* binary file was among the files.
C5_Witness ==
    /\ pcF = "done"
    /\ Len(files) >= 2
    /\ \E i, j \in 1..Len(files) :
          i < j /\ \E f, g \in DOMAIN kind :
              f > g /\ files[i].path = FileTable[f].path /\ files[j].path = FileTable[g].path
    /\ \E f \in DOMAIN kind : kind[f] = "binary"

\* ------------------------------------------------------- claims C6 and C7

\* the text without its newline characters
DropNewlines(s) == SelectSeq(s, LAMBDA c : c # NL)

\* the text without its whitespace characters
NonSpace(s) == SelectSeq(s, LAMBDA c : ~IsSpace(c))

\* s.split("\n"): the lines of the normalised content
OutputLines(s) ==
    LET e == SortedSeq({i \in 1..Len(s) : s[i] = NL} \cup {Len(s) + 1})
    IN [k \in 1..Len(e) |->
          SubSeq(s, (IF k = 1 THEN 1 ELSE e[k - 1] + 1), e[k] - 1)]

\* how often the line l occurs in the sequence of lines ls
Count(l, ls) == Cardinality({i \in 1..Len(ls) : ls[i] = l})

\* the positions, counted in non-whitespace characters, at which a word
\* (a maximal run of non-whitespace characters) of s ends
WordEnds(s) ==
    {Cardinality({j \in 1..i : ~IsSpace(s[j])}) :
        i \in {k \in 1..Len(s) : ~IsSpace(s[k]) /\ (k = Len(s) \/ IsSpace(s[k + 1]))}}

\* C6 as stated: the normalised content and the text have the same
\* characters and differ only in newlines.
C6_Lossless ==
    pcN = "done" => DropNewlines(content) = DropNewlines(text)

\* C6, amended: the normalised content keeps the non-whitespace characters
\* of the text in their order, and every line of at most 120 characters is
\* kept as a line of the content, character for character.
C6_NonSpacePreserved ==
    pcN = "done" =>
        /\ NonSpace(content) = NonSpace(text)
        /\ LET ls == SplitLines(text)
           IN \A i \in 1..Len(ls) :
                 Len(ls[i]) <= Width =>
                     Count(ls[i], OutputLines(content)) >= Count(ls[i], ls)
        /\ (\A i \in 1..Len(SplitLines(text)) : Len(SplitLines(text)[i]) <= Width)
               => content = JoinWith(<<NL>>, SplitLines(text))

\* C6, the case: a line of more than 120 characters was wrapped and lost
\* whitespace at a break.
C6_Witness ==
    /\ pcN = "done"
    /\ \E i \in 1..Len(SplitLines(text)) : Len(SplitLines(text)[i]) > Width
    /\ Len(DropNewlines(content)) < Len(DropNewlines(text))
    /\ Len(OutputLines(content)) > 1

InputError ==
    \/ source = Str_UploadZip /\ zip_file = "none"
    \/ source # Str_UploadZip /\ local_path \in {"file", "missing"}
    \/ fmt \notin DOMAIN Formats

\* the invocation raised at its last step
StepRaised ==
    steps # <<>> /\ steps[Len(steps)] \in
        {"resolve raised", "build_files raised", "export raised", "write raised"}

\* the text starts with the prefix
StartsWith(s, prefix) == Len(s) >= Len(prefix) /\ SubSeq(s, 1, Len(prefix)) = prefix

\* C3: on an input error (an upload without archive, a root that is no
\* directory, an unregistered format) the result is None with an error
\* message and no output file is written at any point; the output file is
\* written only after the source was resolved, the builders ran and the
\* exporter was looked up, in that order.
C3_InputErrorsWriteNothing ==
    /\ InputError => outFile = <<>>
    /\ (InputError /\ pcP = "returned") =>
          /\ result[1] = None
          /\ IF StepRaised THEN StartsWith(result[2], Str_ProcessingError)
             ELSE IF source = Str_UploadZip /\ zip_file = "none" THEN result[2] = Str_NoZip
             ELSE IF source # Str_UploadZip /\ local_path \in {"file", "missing"}
                  THEN result[2] = Str_InvalidDir
             ELSE result[2] = Str_UnknownFormat \o FormatText(fmt)
    /\ outFile # <<>> =>
          /\ Len(steps) >= 6
          /\ steps[1] = "resolve"
          /\ steps[2] \in {"build_tree", "build_tree: root.stat() raised"}
          /\ steps[3] = "build_files"
          /\ steps[4] = "lookup"
          /\ steps[5] = "export"
          /\ steps[6] \in {"write", "write raised"}

\* C3, the case: the builders ran on a resolved directory, then the format
\* PDF was refused and nothing was written.
C3_Witness ==
    /\ pcP = "returned"
    /\ fmt = "PDF"
    /\ steps = <<"resolve", "build_tree", "build_files">>
    /\ filesP # <<>>
    /\ result = <<None, Str_UnknownFormat \o FormatText("PDF")>>
    /\ outFile = <<>>

\* the output with every delimiter from that stands outside a quoted field
\* replaced by the delimiter to
ReplaceFieldDelims(out, from, to) ==
    [i \in 1..Len(out) |->
        IF out[i] = from /\ Cardinality({j \in 1..(i - 1) : out[j] = QUOTE}) % 2 = 0
        THEN to ELSE out[i]]

\* no path and no content excerpt holds a comma or a tab
NoDelimiterInFields(t, fs) ==
    /\ \A i \in 1..Len(t) : \A k \in 1..Len(t[i].path) : t[i].path[k] \notin {COMMA, TAB}
    /\ \A i \in 1..Len(fs) :
          /\ \A k \in 1..Len(fs[i].path) : fs[i].path[k] \notin {COMMA, TAB}
          /\ \A k \in 1..Len(Excerpt(fs[i].content)) : Excerpt(fs[i].content)[k] \notin {COMMA, TAB}

\* C8 as stated: the CSV output with its field delimiters replaced by tabs
\* is the TSV output, and the other way round, whatever the paths and
\* excerpts hold.
C8_DelimiterOnly ==
    pcP = "built" =>
        /\ ReplaceFieldDelims(ExportCsv(treeP, filesP), COMMA, TAB) = ExportTsv(treeP, filesP)
        /\ ReplaceFieldDelims(ExportTsv(treeP, filesP), TAB, COMMA) = ExportCsv(treeP, filesP)

\* C8, amended: when no path and no content excerpt holds a comma or a tab,
\* the CSV output with its field delimiters replaced by tabs is the TSV
\* output, and the other way round; quotes and newlines in the fields are
\* quoted alike in both.
C8_DelimiterOnlyWithoutDelimiters ==
    (pcP = "built" /\ NoDelimiterInFields(treeP, filesP)) =>
        /\ ReplaceFieldDelims(ExportCsv(treeP, filesP), COMMA, TAB) = ExportTsv(treeP, filesP)
        /\ ReplaceFieldDelims(ExportTsv(treeP, filesP), TAB, COMMA) = ExportCsv(treeP, filesP)

\* C8, the case: a tree and files without comma or tab, one content longer
\* than the excerpt and holding quotes and newlines.
C8_Witness ==
    /\ pcP = "built"
    /\ treeP # <<>>
    /\ NoDelimiterInFields(treeP, filesP)
    /\ \E i \in 1..Len(filesP) :
          /\ Len(filesP[i].content) > ExcerptLen
          /\ \E k \in 1..ExcerptLen : filesP[i].content[k] = QUOTE
          /\ \E k \in 1..ExcerptLen : filesP[i].content[k] = NL

Str_CsvHeader == <<"T", "y", "p", "e", ",", "P", "a", "t", "h", ",", "S", "i", "z", "e", ",", "M", "o", "d", "i", "f", "i", "e", "d", "\r", "\n">>
Str_TsvHeader == <<"T", "y", "p", "e", "\t", "P", "a", "t", "h", "\t", "S", "i", "z", "e", "\t", "M", "o", "d", "i", "f", "i", "e", "d", "\r", "\n">>

\* process_and_save is past the builders
Built == pcP \in {"built", "exported", "written"} \/ (pcP = "returned" /\ Len(steps) >= 3)

C10_NeverPropagates ==
    /\ pcP # "propagated"
    /\ pcP = "returned" =>
          /\ Len(result) = 2
          /\ \/ result[1] = None
             \/ /\ result[1] = OutPath(RootNameOf(source, local_path), fmt)
                /\ result[2] = contentP
                /\ outFile = [name |-> result[1], data |-> contentP]
          /\ StepRaised =>
                /\ result[1] = None
                /\ StartsWith(result[2], Str_ProcessingError)
                /\ Contains(result[2], Str_Traceback)

\* C10, the case: write_text raised and the invocation returned None with
\* the stack trace.
C10_Witness ==
    /\ pcP = "returned"
    /\ StepRaised
    /\ steps[Len(steps)] = "write raised"
    /\ result[1] = None
    /\ Contains(result[2], Str_Traceback)

====
